---- MODULE Spec2Model ----
(***************************************************************************)
(* Task hand-off agent: the task-state repository (TaskStateStore), the    *)
(* executor (TaskExecutor, createAndStartTask, continueTask) and the API   *)
(* routes (handoff, webhook), over a GitHub-backed blob store.             *)
(*                                                                         *)
(* Every request is run by a process; every round trip to the store        *)
(* (getContent, createOrUpdateFileContents) is one atomic step, so the     *)
(* read-modify-write sequences of two requests can interleave.             *)
(***************************************************************************)
EXTENDS Integers, Sequences, FiniteSets, TLC

\* ---------------------------------------------------------------- bounds
MaxRequests == 1       \* requests that follow the start of the task
MaxEdits == 1          \* operator edits of the task
MaxTools == 2          \* tool invocations of the agent
MaxRepoCalls == 3      \* repository calls on created tasks, one caller
MaxRaceCalls == 2      \* repository calls on created tasks, two callers
MaxMessages == 85      \* conversation messages added to one task
MaxLists == 1          \* listTasks calls
MaxAcceptRequests == 2 \* requests on a created task: a handoff, a continue

Procs == {"p1", "p2"}
TaskIds == {"t1", "t2"}
IdOrder == [t1 |-> 1, t2 |-> 2]
TargetIds == {"t1"}    \* the task the requests other than createTask address
StartIds == {"t1"}     \* the tasks started through the application
Creators == {"a1"}     \* the agents starting tasks through the application
Agents == {"a1", "a2"}
Uuids == <<"s1", "s2", "s3", "s4", "s5", "s6", "s7", "s8">>
PercentInputs == {45, 150}
Titles == [t1 |-> "first", t2 |-> "second"]   \* createTask: params.title

\* ------------------------------------------------------------- constants
NoAgent == "unset"                    \* HandoffRecord.toAgent is optional
Statuses == {"pending", "in_progress", "awaiting_handoff", "handed_off",
             "completed", "failed", "cancelled"}
NoTask == [id |-> "null"]             \* getTask returns null / no blob
NoIndex == <<[id |-> "null"]>>        \* index.json does not exist

VARIABLES
    store,      \* store[id]: the blob tasks/<id>/state.json, or NoTask
    index,      \* the blob index.json: sequence of entries, or NoIndex
    proc,       \* proc[p]: the request process p is running, its locals
    ops,        \* ops[kind]: number of requests of that kind started
    commits     \* commits[id]: number of successful writes of the blob

vars == <<store, index, proc, ops, commits>>

\* new Date(): the wall clock, read in units of one store write, so a
\* reading taken after a write is later than every reading before it
RECURSIVE Total(_, _)
Total(f, S) ==
    IF S = {} THEN 0
    ELSE LET x == CHOOSE y \in S : TRUE IN f[x] + Total(f, S \ {x})

Now == 1 + Total(commits, TaskIds)

\* ------------------------------------------------------------ the schema
\* TaskStateSchema.parse: the checks a model value can fail
Valid(t) ==
    /\ t.version >= 1
    /\ t.status \in Statuses
    /\ t.progress.percentComplete >= 0
    /\ t.progress.percentComplete <= 100

\* the content identifier of a blob: equal contents, equal identifiers
Sha(content) == content

\* ------------------------------------------ TaskStateStore: the documents
\* createTask: the document it builds
createTaskStarted(taskId, agentId, now) ==
    [ id |-> taskId,
      version |-> 1,
      title |-> Titles[taskId],
      createdAt |-> now,
      updatedAt |-> now,
      status |-> "in_progress",
      github |-> [issueNumber |-> 0],
      session |-> [currentSessionId |-> ""],
      context |-> [conversationHistory |-> <<>>, compactedSummary |-> <<>>],
      progress |-> [currentPhase |-> "initialization",
                    checkpoints |-> <<>>,
                    percentComplete |-> 0],
      files |-> [modifications |-> <<>>],
      handoffs |-> << [fromAgent |-> [agentId |-> agentId, sessionId |-> ""],
                       toAgent |-> NoAgent,
                       reason |-> "Task created"] >>,
      nextSteps |-> [immediate |-> "initial"],
      security |-> [allowedAgents |-> {"*"}] ]

createTask(taskId, agentId, now) ==
    [ id |-> taskId,
      version |-> 1,
      title |-> Titles[taskId],
      createdAt |-> now,
      updatedAt |-> now,
      status |-> "pending",
      github |-> [issueNumber |-> 0],
      session |-> [currentSessionId |-> ""],
      context |-> [conversationHistory |-> <<>>, compactedSummary |-> <<>>],
      progress |-> [currentPhase |-> "initialization",
                    checkpoints |-> <<>>,
                    percentComplete |-> 0],
      files |-> [modifications |-> <<>>],
      handoffs |-> << [fromAgent |-> [agentId |-> agentId, sessionId |-> ""],
                       toAgent |-> NoAgent,
                       reason |-> "Task created"] >>,
      nextSteps |-> [immediate |-> "initial"],
      security |-> [allowedAgents |-> {"*"}] ]

\* { ...a, ...b }: the keys of b override those of a
Merge(a, b) ==
    [k \in DOMAIN a \cup DOMAIN b |-> IF k \in DOMAIN b THEN b[k] ELSE a[k]]

\* updateTask: the document it saves
updateTask(current, updates, now) ==
    Merge(Merge(current, updates),
          [version |-> current.version + 1, updatedAt |-> now])

updateSessionId(task, sessionId) ==
    LET n == Len(task.handoffs)
        t1 == [task EXCEPT !.session.currentSessionId = sessionId,
                           !.status = "in_progress"]
    IN  IF n > 0
        THEN [t1 EXCEPT !.handoffs[n].fromAgent.sessionId = sessionId]
        ELSE t1

addFileModification(task, modification, now) ==
    [task EXCEPT !.files.modifications = Append(@, modification),
                 !.updatedAt = now]

\* compactHistory: keep the last KeepLast messages, fold the others
CompactThreshold == 50
KeepLast == 20

Digest(m) == [role |-> m.role, text |-> m.content]

compactHistoryReplace(task) ==
    LET h == task.context.conversationHistory
        n == Len(h)
        cut == IF n > KeepLast THEN n - KeepLast ELSE 0
        toCompact == SubSeq(h, 1, cut)
        toKeep == SubSeq(h, cut + 1, n)
    IN  [task EXCEPT
            !.context.compactedSummary =
                <<"---">> \o [i \in 1..cut |-> Digest(toCompact[i])],
            !.context.conversationHistory = toKeep]

compactHistoryOldest(task) ==
    LET h == task.context.conversationHistory
        n == Len(h)
        cut == IF n > KeepLast THEN n - KeepLast ELSE 0
        toCompact == SubSeq(h, n - cut + 1, n)
        toKeep == SubSeq(h, 1, n - cut)
    IN  [task EXCEPT
            !.context.compactedSummary =
                @ \o <<"---">> \o [i \in 1..cut |-> Digest(toCompact[i])],
            !.context.conversationHistory = toKeep]

compactHistory(task) ==
    LET h == task.context.conversationHistory
        n == Len(h)
        cut == IF n > KeepLast THEN n - KeepLast ELSE 0
        toCompact == SubSeq(h, 1, cut)
        toKeep == SubSeq(h, cut + 1, n)
    IN  [task EXCEPT
            !.context.compactedSummary =
                @ \o <<"---">> \o [i \in 1..cut |-> Digest(toCompact[i])],
            !.context.conversationHistory = toKeep]

addConversationMessageEager(task, message, now) ==
    LET t1 == [task EXCEPT
                 !.context.conversationHistory = Append(@, message)]
        t2 == IF Len(t1.context.conversationHistory) >= CompactThreshold
              THEN compactHistory(t1) ELSE t1
    IN  [t2 EXCEPT !.updatedAt = now]

addConversationMessageLate(task, message, now) ==
    LET t1 == [task EXCEPT
                 !.context.conversationHistory = Append(@, message)]
        t2 == IF Len(t1.context.conversationHistory) > CompactThreshold + 1
              THEN compactHistory(t1) ELSE t1
    IN  [t2 EXCEPT !.updatedAt = now]

addConversationMessage(task, message, now) ==
    LET t1 == [task EXCEPT
                 !.context.conversationHistory = Append(@, message)]
        t2 == IF Len(t1.context.conversationHistory) > CompactThreshold
              THEN compactHistory(t1) ELSE t1
    IN  [t2 EXCEPT !.updatedAt = now]

updateProgressStarted(task, progress, now) ==
    [task EXCEPT !.progress = Merge(@, progress),
                 !.status = "in_progress",
                 !.updatedAt = now]

updateProgress(task, progress, now) ==
    [task EXCEPT !.progress = Merge(@, progress), !.updatedAt = now]

updateNextSteps(task, nextSteps, now) ==
    [task EXCEPT !.nextSteps = Merge(@, nextSteps), !.updatedAt = now]

initiateHandoffPrepend(task, handoff, now) ==
    [task EXCEPT !.status = "awaiting_handoff",
                 !.handoffs = <<handoff>> \o @,
                 !.updatedAt = now]

initiateHandoff(task, handoff, now) ==
    [task EXCEPT !.status = "awaiting_handoff",
                 !.handoffs = Append(@, handoff),
                 !.updatedAt = now]

acceptHandoffFirst(task, agentId, now) ==
    [task EXCEPT !.handoffs[1].toAgent = agentId,
                 !.status = "handed_off",
                 !.updatedAt = now]

acceptHandoffKeepStatus(task, agentId, now) ==
    LET n == Len(task.handoffs)
    IN  [task EXCEPT !.handoffs[n].toAgent = agentId,
                     !.updatedAt = now]

acceptHandoff(task, agentId, now) ==
    LET n == Len(task.handoffs)
    IN  [task EXCEPT !.handoffs[n].toAgent = agentId,
                     !.status = "handed_off",
                     !.updatedAt = now]

\* completeTask: the partial document it passes to updateTask
completeTaskStatusOnly == [status |-> "completed"]

completeTask ==
    [status |-> "completed",
     progress |-> [currentPhase |-> "completed",
                   checkpoints |-> <<>>,
                   percentComplete |-> 100]]

\* ------------------------------------------- TaskStateStore: one call
\* What a call computes from the document getTask returned: the error it
\* throws, or the document it hands to saveTaskState.
Ok(t) == [err |-> "", task |-> t]
ThrowError(e) == [err |-> "Error", task |-> NoTask]

Throw(e) == [err |-> e, task |-> NoTask]

Mutation(op, cur, now) ==
    IF cur = NoTask THEN Throw("NotFound")
    ELSE IF ~Valid(cur) THEN Throw("ValidationError")
    ELSE CASE op.kind = "updateTask" ->
                LET u == updateTask(cur, op.updates, now)
                IN  IF Valid(u) THEN Ok(u) ELSE Throw("ValidationError")
           [] op.kind = "completeTask" ->
                Ok(updateTask(cur, completeTask, now))
           [] op.kind = "updateSessionId" ->
                Ok(updateSessionId(cur, op.sessionId))
           [] op.kind = "addFileModification" ->
                Ok(addFileModification(cur, op.modification, now))
           [] op.kind = "addConversationMessage" ->
                Ok(addConversationMessage(cur, op.message, now))
           [] op.kind = "updateProgress" ->
                Ok(updateProgress(cur, op.progress, now))
           [] op.kind = "updateNextSteps" ->
                Ok(updateNextSteps(cur, op.nextSteps, now))
           [] op.kind = "initiateHandoff" ->
                Ok(initiateHandoff(cur, op.handoff, now))
           [] op.kind = "acceptHandoff" ->
                IF Len(cur.handoffs) = 0 THEN Throw("NoHandoffRecord")
                ELSE Ok(acceptHandoff(cur, op.agentId, now))

\* ----------------------------------------------------------- the inputs
HandoffFrom(agentId, sessionId, reason) ==
    [fromAgent |-> [agentId |-> agentId, sessionId |-> sessionId],
     toAgent |-> NoAgent,
     reason |-> reason]

Checkpoint(phase) == [description |-> phase]

Message(role, content) == [role |-> role, content |-> content]

\* ------------------------------------------------------------ processes
Idle ==
    [ req |-> "idle",        \* the request being served
      pc |-> "idle",         \* position in the request's code
      rpc |-> "none",        \* position in the TaskStateStore call
      op |-> [kind |-> "none", id |-> "null"],
      current |-> NoTask,    \* the document getTask returned to the call
      task |-> NoTask,       \* the document the call is about to save
      sha |-> NoTask,        \* the sha saveTaskState fetched
      idx |-> NoIndex,       \* addToIndex: the index it is about to save
      isha |-> NoIndex,      \* addToIndex: the sha it read
      rres |-> "none",       \* outcome of the last TaskStateStore call
      out |-> "none",        \* outcome of the request: "ok" or the error
      tid |-> "null",        \* the task the request addresses
      agentId |-> "",        \* the caller's authenticated agent identifier
      fromAgentId |-> "",    \* handoff request body: fromAgentId
      acceptHandoff |-> FALSE,   \* continue request body: acceptHandoff
      createIssue |-> FALSE,     \* start request body: github.createIssue
      turn |-> "none",       \* "execute" or "resume"
      first |-> NoTask,      \* continueTask / handoff route: the task read
      taskState |-> NoTask,  \* execute / resume: the task read at the start
      sessionId |-> "",      \* the session id of the turn
      tools |-> <<>>,        \* the tools the agent has invoked in the turn
      toolTask |-> NoTask,   \* requestHandoff: the task it read
      toolres |-> "none",    \* outcome of the last tool invocation
      result |-> [status |-> "none", progress |-> 0, error |-> ""],
                             \* the ExecutionResult of the turn
      listed |-> <<>>,       \* listTasks: the entries it returned
      secretSet |-> FALSE,   \* webhook: GITHUB_WEBHOOK_SECRET is configured
      signed |-> FALSE ]     \* webhook: the signature header is the HMAC
                             \* of the payload under the sender's secret

Returned(p) == proc[p].pc = "done" /\ proc[p].rpc = "none"

\* the request calls a TaskStateStore method and continues at cont
Call(pr, op, cont) ==
    [pr EXCEPT !.op = op, !.pc = cont, !.rres = "pending",
               !.rpc = IF op.kind = "createTask" THEN "new" ELSE "get"]

\* the request ends by throwing e (or by returning, e = "ok")
End(pr, e) == [pr EXCEPT !.pc = "done", !.out = e]

StatusUpdate(id, status) ==
    [kind |-> "updateTask", id |-> id, updates |-> [status |-> status]]

\* TaskExecutor.execute / resume: the catch block
Catch(pr, e) ==
    LET failed == [status |-> "failed",
                   progress |-> pr.taskState.progress.percentComplete,
                   error |-> e]
    IN  IF pr.turn = "execute"
        THEN [Call(pr, StatusUpdate(pr.tid, "failed"), "ex_fail")
                 EXCEPT !.result = failed]
        ELSE [End(pr, "ok") EXCEPT !.result = failed]

\* The code that runs, without a further round trip, when the
\* TaskStateStore call of a request returns res
Resume(pr, res) ==
    LET r == [pr EXCEPT !.rpc = "none", !.rres = res]
    IN  CASE pr.pc = "done" -> End(r, res)
          \* createAndStartTask, after createTask
          [] pr.pc = "st_created" ->
                IF res # "ok" THEN End(r, res)
                ELSE IF pr.createIssue THEN [r EXCEPT !.pc = "st_issue"]
                ELSE [r EXCEPT !.pc = "ex_get"]
          \* createAndStartTask, after updateTask({github})
          [] pr.pc = "st_linked" ->
                IF res # "ok" THEN End(r, res) ELSE [r EXCEPT !.pc = "ex_get"]
          \* continueTask, after acceptHandoff
          [] pr.pc = "ct_accepted" ->
                IF res # "ok" THEN End(r, res) ELSE [r EXCEPT !.pc = "rs_get"]
          \* execute, after updateSessionId
          [] pr.pc = "ex_sid" ->
                IF res # "ok" THEN End(r, res) ELSE [r EXCEPT !.pc = "agent"]
          \* a tool's execute, after its TaskStateStore call
          [] pr.pc = "tool" -> [r EXCEPT !.pc = "agent", !.toolres = res]
          \* requestHandoff, after initiateHandoff
          [] pr.pc = "rh_initiated" ->
                IF res = "ok" /\ pr.toolTask.github.issueNumber # 0
                THEN [r EXCEPT !.pc = "rh_comment"]
                ELSE [r EXCEPT !.pc = "agent", !.toolres = res]
          \* execute / resume, after updateTask({status: "in_progress"})
          [] pr.pc = "ex_updated" ->
                IF res # "ok" THEN Catch(r, res)
                ELSE Call(r, [kind |-> "addConversationMessage",
                              id |-> pr.tid,
                              message |-> Message("assistant", "text")],
                          "ex_appended")
          \* execute / resume, after addConversationMessage
          [] pr.pc = "ex_appended" ->
                IF res # "ok" THEN Catch(r, res)
                ELSE [End(r, "ok") EXCEPT !.result =
                        [status |-> "in_progress",
                         progress |-> pr.taskState.progress.percentComplete,
                         error |-> ""]]
          \* execute, after updateTask({status: "failed"}) in the catch block
          [] pr.pc = "ex_fail" -> End(r, res)
          \* handoff route, after initiateHandoff
          [] pr.pc = "ho_initiated" ->
                IF res # "ok" THEN End(r, res)
                ELSE IF pr.first.github.issueNumber # 0
                THEN [r EXCEPT !.pc = "ho_comment"]
                ELSE End(r, "ok")
          \* webhook, after updateTask: errors are caught and logged
          [] pr.pc = "wh_updated" -> End(r, "ok")

\* getTask, then the mutation of the document in memory
GetTask(p) ==
    /\ proc[p].rpc = "get"
    /\ LET cur == store[proc[p].op.id]
           r == Mutation(proc[p].op, cur, Now)
       IN  proc' = [proc EXCEPT ![p] =
                IF r.err = ""
                THEN [@ EXCEPT !.current = cur, !.task = r.task,
                               !.rpc = "sha"]
                ELSE Resume([@ EXCEPT !.current = cur], r.err)]
    /\ UNCHANGED <<store, index, ops, commits>>

\* createTask: build and validate the document
NewTask(p) ==
    /\ proc[p].rpc = "new"
    /\ LET t == createTask(proc[p].op.id, proc[p].op.agentId, Now)
       IN  proc' = [proc EXCEPT ![p] =
                IF Valid(t)
                THEN [@ EXCEPT !.task = t, !.rpc = "sha"]
                ELSE Resume(@, "ValidationError")]
    /\ UNCHANGED <<store, index, ops, commits>>

\* saveTaskState: fetch the sha of the blob as it is now
SaveGetSha(p) ==
    /\ proc[p].rpc = "sha"
    /\ proc' = [proc EXCEPT ![p].sha = Sha(store[proc[p].task.id]),
                            ![p].rpc = "put"]
    /\ UNCHANGED <<store, index, ops, commits>>

\* saveTaskState: createOrUpdateFileContents with that sha
SavePutAtRequest(p) ==
    /\ proc[p].rpc = "put"
    /\ LET id == proc[p].op.id
       IN  IF Sha(store[proc[p].task.id]) = proc[p].sha
           THEN /\ store' = [store EXCEPT ![id] = proc[p].task]
                /\ commits' = [commits EXCEPT ![id] = @ + 1]
                /\ proc' = [proc EXCEPT ![p] =
                      IF @.op.kind = "createTask"
                      THEN [@ EXCEPT !.rpc = "iget"]
                      ELSE Resume(@, "ok")]
           ELSE /\ proc' = [proc EXCEPT ![p] = Resume(@, "Conflict")]
                /\ UNCHANGED <<store, commits>>
    /\ UNCHANGED <<index, ops>>

SavePut(p) ==
    /\ proc[p].rpc = "put"
    /\ LET id == proc[p].task.id
       IN  IF Sha(store[id]) = proc[p].sha
           THEN /\ store' = [store EXCEPT ![id] = proc[p].task]
                /\ commits' = [commits EXCEPT ![id] = @ + 1]
                /\ proc' = [proc EXCEPT ![p] =
                      IF @.op.kind = "createTask"
                      THEN [@ EXCEPT !.rpc = "iget"]
                      ELSE Resume(@, "ok")]
           ELSE /\ proc' = [proc EXCEPT ![p] = Resume(@, "Conflict")]
                /\ UNCHANGED <<store, commits>>
    /\ UNCHANGED <<index, ops>>

\* addToIndex: read index.json and push the entry
IndexGet(p) ==
    /\ proc[p].rpc = "iget"
    /\ LET tasks == IF index = NoIndex THEN <<>> ELSE index
           entry == [id |-> proc[p].op.id, title |-> Titles[proc[p].op.id],
                     createdAt |-> Now]
       IN  proc' = [proc EXCEPT ![p].isha = Sha(index),
                                ![p].idx = Append(tasks, entry),
                                ![p].rpc = "iput"]
    /\ UNCHANGED <<store, index, ops, commits>>

\* addToIndex: createOrUpdateFileContents with the sha it read
IndexPut(p) ==
    /\ proc[p].rpc = "iput"
    /\ IF Sha(index) = proc[p].isha
       THEN /\ index' = proc[p].idx
            /\ proc' = [proc EXCEPT ![p] = Resume(@, "ok")]
       ELSE /\ proc' = [proc EXCEPT ![p] = Resume(@, "Conflict")]
            /\ UNCHANGED index
    /\ UNCHANGED <<store, ops, commits>>

StoreStep(p) ==
    \/ GetTask(p)
    \/ NewTask(p)
    \/ SaveGetSha(p)
    \/ SavePut(p)
    \/ IndexGet(p)
    \/ IndexPut(p)

\* --------------------------------------------------- requests: repository
\* a uuid: an id no document and no running createTask has (the first such
\* id, ids being interchangeable)
Unused(id) ==
    /\ store[id] = NoTask
    /\ \A q \in Procs : ~(proc[q].op.kind = "createTask" /\ proc[q].op.id = id)

Fresh(id) ==
    /\ Unused(id)
    /\ \A other \in TaskIds : Unused(other) => IdOrder[id] <= IdOrder[other]

UpdateInputs ==
    { [security |-> [allowedAgents |-> {"a1"}]],
      [handoffs |-> <<>>],
      [github |-> [issueNumber |-> 7]],
      [id |-> "t2"] }

ProgressInput(phase, percentComplete) ==
    [currentPhase |-> phase, percentComplete |-> percentComplete,
     checkpoints |-> <<Checkpoint(phase)>>]

RepoCalls(id) ==
    { [kind |-> "updateTask", id |-> id, updates |-> u] : u \in UpdateInputs }
    \cup { [kind |-> "completeTask", id |-> id] }
    \cup { [kind |-> "updateSessionId", id |-> id, sessionId |-> "sx"] }
    \cup { [kind |-> "addFileModification", id |-> id,
            modification |-> "src/a.ts"] }
    \cup { [kind |-> "addConversationMessage", id |-> id,
            message |-> Message("user", "m")] }
    \cup { [kind |-> "updateProgress", id |-> id,
            progress |-> ProgressInput("implementation", pct)] :
              pct \in PercentInputs }
    \cup { [kind |-> "updateNextSteps", id |-> id,
            nextSteps |-> [immediate |-> "next"]] }
    \cup { [kind |-> "initiateHandoff", id |-> id,
            handoff |-> HandoffFrom("a1", "", "time_limit")] }
    \cup { [kind |-> "acceptHandoff", id |-> id, agentId |-> a] :
              a \in Agents }

\* the k-th message added to a task has content k
MessageCalls ==
    [id \in TargetIds |->
        {[kind |-> "addConversationMessage", id |-> id,
          message |-> Message("user", ops.message + 1)]}]

CanStart(p, kind, limit) == proc[p].pc = "idle" /\ ops[kind] < limit

Started(kind) == [ops EXCEPT ![kind] = @ + 1]

\* a caller invokes one TaskStateStore mutation
RepoCall(p, calls, kind, limit) ==
    /\ CanStart(p, kind, limit)
    /\ \E id \in TargetIds : \E op \in calls[id] :
          proc' = [proc EXCEPT ![p] =
             [Call(@, op, "done") EXCEPT !.req = "repo", !.tid = id]]
    /\ ops' = Started(kind)
    /\ UNCHANGED <<store, index, commits>>

\* a caller invokes createTask
RepoCreate(p, ids) ==
    /\ proc[p].pc = "idle"
    /\ \E id \in ids : \E a \in Agents :
          /\ Fresh(id)
          /\ proc' = [proc EXCEPT ![p] =
                [Call(@, [kind |-> "createTask", id |-> id, agentId |-> a],
                      "done") EXCEPT !.req = "create", !.tid = id]]
    /\ ops' = Started("create")
    /\ UNCHANGED <<store, index, commits>>

\* listTasks: the entries of index.json as they are stored, none on a 404
listTasks(content) == IF content = NoIndex THEN <<>> ELSE content

\* a caller invokes listTasks
ListTasks(p, limit) ==
    /\ CanStart(p, "list", limit)
    /\ proc' = [proc EXCEPT ![p] =
          [End(@, "ok") EXCEPT !.req = "list", !.isha = Sha(index),
                               !.listed = listTasks(index)]]
    /\ ops' = Started("list")
    /\ UNCHANGED <<store, index, commits>>

\* the request has returned to its caller
Finish(p) ==
    /\ Returned(p)
    /\ proc' = [proc EXCEPT ![p] = Idle]
    /\ UNCHANGED <<store, index, ops, commits>>

\* ------------------------------------------------------ requests: start
\* createAndStartTask
StartTask(p) ==
    /\ proc[p].pc = "idle"
    /\ \E id \in StartIds : \E a \in Creators : \E issue \in BOOLEAN :
          /\ Fresh(id)
          /\ proc' = [proc EXCEPT ![p] =
                [Call(@, [kind |-> "createTask", id |-> id, agentId |-> a],
                      "st_created")
                   EXCEPT !.req = "start", !.tid = id, !.agentId = a,
                          !.createIssue = issue]]
    /\ ops' = Started("start")
    /\ UNCHANGED <<store, index, commits>>

\* createAndStartTask: issueTracker.createTaskIssue, which may throw
CreateIssue(p) ==
    /\ proc[p].pc = "st_issue" /\ proc[p].rpc = "none"
    /\ \/ proc' = [proc EXCEPT ![p] =
             Call(@, [kind |-> "updateTask", id |-> @.tid,
                      updates |-> [github |-> [issueNumber |-> 7]]],
                  "st_linked")]
       \/ proc' = [proc EXCEPT ![p] = End(@, "IssueTrackerError")]
    /\ UNCHANGED <<store, index, ops, commits>>

\* TaskExecutor.execute: getTask, uuidv4, then updateSessionId
ExecuteGet(p) ==
    /\ proc[p].pc = "ex_get" /\ proc[p].rpc = "none"
    /\ LET t == store[proc[p].tid]
           sid == Uuids[ops.start]
       IN  proc' = [proc EXCEPT ![p] =
             IF t = NoTask THEN End(@, "TaskNotFound")
             ELSE IF ~Valid(t) THEN End(@, "ValidationError")
             ELSE [Call(@, [kind |-> "updateSessionId", id |-> @.tid,
                            sessionId |-> sid], "ex_sid")
                     EXCEPT !.turn = "execute", !.taskState = t,
                            !.sessionId = sid]]
    /\ UNCHANGED <<store, index, ops, commits>>

\* --------------------------------------------------- requests: continue
AuthorizedBoth(task, agentId) ==
    /\ "*" \in task.security.allowedAgents
    /\ agentId \in task.security.allowedAgents

Authorized(task, agentId) ==
    \/ "*" \in task.security.allowedAgents
    \/ agentId \in task.security.allowedAgents

\* continueTask: getTask, the authorization check, then acceptHandoff
ContinueTask(p, limit) ==
    /\ CanStart(p, "request", limit)
    /\ \E id \in TargetIds : \E a \in Agents : \E accept \in BOOLEAN :
         LET t == store[id]
             r == [proc[p] EXCEPT !.req = "continue", !.tid = id,
                                  !.agentId = a, !.acceptHandoff = accept,
                                  !.first = t]
         IN  proc' = [proc EXCEPT ![p] =
               IF t = NoTask THEN End(r, "TaskNotFound")
               ELSE IF ~Valid(t) THEN End(r, "ValidationError")
               ELSE IF ~Authorized(t, a) THEN End(r, "Unauthorized")
               ELSE IF accept /\ t.status = "awaiting_handoff"
               THEN Call(r, [kind |-> "acceptHandoff", id |-> id,
                             agentId |-> a], "ct_accepted")
               ELSE [r EXCEPT !.pc = "rs_get"]]
    /\ ops' = Started("request")
    /\ UNCHANGED <<store, index, commits>>

\* TaskExecutor.resume: getTask; the session id is the one continueTask read
ResumeGet(p) ==
    /\ proc[p].pc = "rs_get" /\ proc[p].rpc = "none"
    /\ LET t == store[proc[p].tid]
       IN  proc' = [proc EXCEPT ![p] =
             IF t = NoTask THEN End(@, "TaskNotFound")
             ELSE IF ~Valid(t) THEN End(@, "ValidationError")
             ELSE [@ EXCEPT !.turn = "resume", !.taskState = t,
                            !.sessionId =
                                proc[p].first.session.currentSessionId,
                            !.pc = "agent"]]
    /\ UNCHANGED <<store, index, ops, commits>>

\* ---------------------------------------------------- the agent's turn
\* generateText is running: the agent invokes tools, then returns or fails
ToolInputs(id) ==
    { [kind |-> "updateProgress", id |-> id,
       progress |-> ProgressInput("implementation", pct)] :
          pct \in PercentInputs }
    \cup { [kind |-> "updateNextSteps", id |-> id,
            nextSteps |-> [immediate |-> "next"]] }
    \cup { [kind |-> "addFileModification", id |-> id,
            modification |-> "src/a.ts"] }

InTurn(p) ==
    proc[p].pc = "agent" /\ proc[p].rpc = "none"

\* the tools updateProgress, updateNextSteps, recordFileChange
ToolCall(p) ==
    /\ InTurn(p)
    /\ ops.tool < MaxTools
    /\ \E op \in ToolInputs(proc[p].tid) :
          proc' = [proc EXCEPT ![p] =
             [Call(@, op, "tool") EXCEPT !.tools = Append(@, op.kind)]]
    /\ ops' = Started("tool")
    /\ UNCHANGED <<store, index, commits>>

\* the tool requestHandoff: getTask, then initiateHandoff
RequestHandoff(p) ==
    /\ InTurn(p)
    /\ ops.tool < MaxTools
    /\ LET t == store[proc[p].tid]
           n == IF t = NoTask THEN 0 ELSE Len(t.handoffs)
           from == IF n > 0 THEN t.handoffs[n].fromAgent
                   ELSE [agentId |-> "unknown",
                         sessionId |-> proc[p].sessionId]
           r == [proc[p] EXCEPT !.tools = Append(@, "requestHandoff"),
                                !.toolTask = t]
       IN  proc' = [proc EXCEPT ![p] =
             IF t = NoTask THEN [r EXCEPT !.toolres = "NotFound"]
             ELSE IF ~Valid(t) THEN [r EXCEPT !.toolres = "ValidationError"]
             ELSE Call(r, [kind |-> "initiateHandoff", id |-> r.tid,
                           handoff |-> [fromAgent |-> from,
                                        toAgent |-> NoAgent,
                                        reason |-> "expertise_needed"]],
                       "rh_initiated")]
    /\ ops' = Started("tool")
    /\ UNCHANGED <<store, index, commits>>

\* requestHandoff: issueTracker.addHandoffComment, which may throw
HandoffComment(p) ==
    /\ proc[p].pc = "rh_comment" /\ proc[p].rpc = "none"
    /\ \E res \in {"ok", "IssueTrackerError"} :
          proc' = [proc EXCEPT ![p].pc = "agent", ![p].toolres = res]
    /\ UNCHANGED <<store, index, ops, commits>>

\* generateText returns the final text
AgentReturns(p) ==
    /\ InTurn(p)
    /\ proc' = [proc EXCEPT ![p] =
          Call(@, StatusUpdate(@.tid, "in_progress"), "ex_updated")]
    /\ UNCHANGED <<store, index, ops, commits>>

\* generateText throws
AgentFails(p) ==
    /\ InTurn(p)
    /\ proc' = [proc EXCEPT ![p] = Catch(@, "AgentTurnFailure")]
    /\ UNCHANGED <<store, index, ops, commits>>

\* ------------------------------------------------ requests: handoff route
\* POST handoff: the caller's identity, the body's fromAgentId
HandoffPermitted(task, agentId, fromAgentId) ==
    LET n == Len(task.handoffs)
    IN  \/ n > 0 /\ task.handoffs[n].fromAgent.agentId = agentId
        \/ n > 0 /\ task.handoffs[n].fromAgent.agentId = fromAgentId
        \/ Authorized(task, agentId)

HandoffRoute(p, limit) ==
    /\ CanStart(p, "request", limit)
    /\ \E id \in TargetIds : \E a \in Agents : \E from \in Agents :
         LET t == store[id]
             r == [proc[p] EXCEPT !.req = "handoff", !.tid = id,
                                  !.agentId = a, !.fromAgentId = from,
                                  !.first = t]
         IN  proc' = [proc EXCEPT ![p] =
               IF t = NoTask THEN End(r, "404")
               ELSE IF ~Valid(t) THEN End(r, "ValidationError")
               ELSE IF ~HandoffPermitted(t, a, from) THEN End(r, "403")
               ELSE Call(r, [kind |-> "initiateHandoff", id |-> id,
                             handoff |->
                               HandoffFrom(from, t.session.currentSessionId,
                                           "user_request")],
                         "ho_initiated")]
    /\ ops' = Started("request")
    /\ UNCHANGED <<store, index, commits>>

\* handoff route: issueTracker.addHandoffComment, which may throw
HandoffRouteComment(p) ==
    /\ proc[p].pc = "ho_comment" /\ proc[p].rpc = "none"
    /\ \E res \in {"ok", "IssueTrackerError"} :
          proc' = [proc EXCEPT ![p] = End(@, res)]
    /\ UNCHANGED <<store, index, ops, commits>>

\* ------------------------------------------------------ requests: webhook
\* verifySignature
verifySignature(secretSet, signatureMatches) ==
    IF ~secretSet THEN TRUE ELSE signatureMatches

\* POST webhook: an "issues" event, action "closed", naming the task
Webhook(p, limit) ==
    /\ CanStart(p, "request", limit)
    /\ \E id \in TargetIds : \E secretSet \in BOOLEAN : \E sig \in BOOLEAN :
         LET r == [proc[p] EXCEPT !.req = "webhook", !.tid = id,
                                  !.secretSet = secretSet, !.signed = sig]
         IN  proc' = [proc EXCEPT ![p] =
               IF ~verifySignature(secretSet, sig) THEN End(r, "401")
               ELSE Call(r, StatusUpdate(id, "completed"), "wh_updated")]
    /\ ops' = Started("request")
    /\ UNCHANGED <<store, index, commits>>

\* --------------------------------------------------------- specification
Init ==
    /\ store = [id \in TaskIds |-> NoTask]
    /\ index = NoIndex
    /\ proc = [p \in Procs |-> Idle]
    /\ ops = [start |-> 0, create |-> 0, request |-> 0, edit |-> 0,
              call |-> 0, tool |-> 0, message |-> 0, list |-> 0]
    /\ commits = [id \in TaskIds |-> 0]

\* the steps of a call of the repository
RepoStep(p) ==
    \/ StoreStep(p)
    \/ Finish(p)

\* the steps of a request of the application
Continue(p) ==
    \/ RepoStep(p)
    \/ CreateIssue(p)
    \/ ExecuteGet(p)
    \/ ResumeGet(p)
    \/ ToolCall(p)
    \/ RequestHandoff(p)
    \/ HandoffComment(p)
    \/ AgentReturns(p)
    \/ AgentFails(p)
    \/ HandoffRouteComment(p)

AllCalls == [id \in TargetIds |-> RepoCalls(id)]

\* an operator restricts the task to agent a1
OperatorCalls ==
    [id \in TargetIds |->
        {[kind |-> "updateTask", id |-> id,
          updates |-> [security |-> [allowedAgents |-> {"a1"}]]]}]

\* The application, one request at a time (a single logical writer): a task
\* is started, then continued, handed off, or closed by a webhook
Next ==
    \/ Continue("p1")
    \/ StartTask("p1")
    \/ ContinueTask("p1", MaxRequests)
    \/ HandoffRoute("p1", MaxRequests)
    \/ Webhook("p1", MaxRequests)

Spec == Init /\ [][Next]_vars

\* The authorization gate: a task is created, an operator restricts it to
\* agent a1, agents continue it or hand it off; the agent uses no tool
NextGate ==
    \/ RepoStep("p1")
    \/ RepoCreate("p1", TargetIds)
    \/ RepoCall("p1", OperatorCalls, "edit", MaxEdits)
    \/ ContinueTask("p1", MaxRequests)
    \/ ResumeGet("p1")
    \/ AgentReturns("p1")
    \/ AgentFails("p1")
    \/ HandoffRoute("p1", MaxRequests)

SpecGate == Init /\ [][NextGate]_vars

\* an earlier turn has stored its session id in the task
SessionCalls ==
    [id \in TargetIds |->
        {[kind |-> "updateSessionId", id |-> id, sessionId |-> "sx"]}]

\* The acceptance of a handoff: a task is created, given a session, handed
\* off through the API and continued; the agent may request a handoff (the
\* task has no issue)
NextAccept ==
    \/ RepoStep("p1")
    \/ RepoCreate("p1", TargetIds)
    \/ RepoCall("p1", SessionCalls, "edit", MaxEdits)
    \/ HandoffRoute("p1", MaxAcceptRequests)
    \/ ContinueTask("p1", MaxAcceptRequests)
    \/ ResumeGet("p1")
    \/ RequestHandoff("p1")
    \/ AgentReturns("p1")
    \/ AgentFails("p1")

SpecAccept == Init /\ [][NextAccept]_vars

\* The repository, one call at a time
NextRepo ==
    \/ RepoStep("p1")
    \/ RepoCreate("p1", TargetIds)
    \/ RepoCall("p1", AllCalls, "call", MaxRepoCalls)

SpecRepo == Init /\ [][NextRepo]_vars

\* The repository, two callers whose round trips interleave
NextRace ==
    \E p \in Procs :
        \/ RepoStep(p)
        \/ RepoCreate(p, TargetIds)
        \/ RepoCall(p, AllCalls, "call", MaxRaceCalls)

SpecRace == Init /\ [][NextRace]_vars

\* The conversation of one task: messages are added one after the other
NextHistory ==
    \/ RepoStep("p1")
    \/ RepoCreate("p1", TargetIds)
    \/ RepoCall("p1", MessageCalls, "message", MaxMessages)

SpecHistory == Init /\ [][NextHistory]_vars

\* The index: two callers create tasks and list them
NextIndex ==
    \E p \in Procs :
        \/ RepoCreate(p, TaskIds)
        \/ NewTask(p)
        \/ SaveGetSha(p)
        \/ SavePut(p)
        \/ IndexGet(p)
        \/ IndexPut(p)
        \/ ListTasks(p, MaxLists)
        \/ Finish(p)

SpecIndex == Init /\ [][NextIndex]_vars

\* a handoff of the task is pending
HandoffCalls ==
    [id \in TargetIds |->
        {[kind |-> "initiateHandoff", id |-> id,
          handoff |-> HandoffFrom("a1", "", "time_limit")]}]

\* The acceptance of a handoff by two agents: a task is created and handed
\* off, and two continue requests run at the same time; the agent uses no
\* tool
NextAcceptRace ==
    \E p \in Procs :
        \/ RepoStep(p)
        \/ RepoCreate(p, TargetIds)
        \/ RepoCall(p, HandoffCalls, "edit", MaxEdits)
        \/ ContinueTask(p, MaxAcceptRequests)
        \/ ResumeGet(p)
        \/ AgentReturns(p)
        \/ AgentFails(p)

SpecAcceptRace == Init /\ [][NextAcceptRace]_vars

\* ================================================================ claims
Exists(id) == store[id] # NoTask

NoWildcard(task, agentId) ==
    /\ "*" \notin task.security.allowedAgents
    /\ agentId \notin task.security.allowedAgents

\* C1: after N persisted mutations of a created task its version is 1 + N
\* (commits counts the createTask write and the N mutations)
C1_VersionCountsMutations ==
    \A id \in TaskIds : Exists(id) => store[id].version = commits[id]

\* C2: a mutation whose read was overtaken by another writer's write does
\* not overwrite it: a write of a task succeeds only on the document the
\* writer read
C2_NoLostUpdate ==
    [][\A p \in Procs :
          (proc[p].rpc = "put" /\ proc[p].op.kind # "createTask"
             /\ proc'[p].rpc # "put"
             /\ store'[proc[p].op.id] # store[proc[p].op.id])
          => store[proc[p].op.id] = proc[p].current]_vars

\* C3: every change of a task's persisted status follows a defined edge
Edges ==
    { <<"pending", "in_progress">>,
      <<"in_progress", "awaiting_handoff">>,
      <<"awaiting_handoff", "handed_off">>,
      <<"handed_off", "in_progress">>,
      <<"in_progress", "completed">>,
      <<"in_progress", "failed">>,
      <<"in_progress", "cancelled">> }

TurnReturned(p) ==
    /\ Returned(p)
    /\ proc[p].req \in {"start", "continue"}
    /\ proc[p].turn \in {"execute", "resume"}

C4_HandoffRequestedInTurn ==
    \A p \in Procs :
        (/\ TurnReturned(p)
         /\ proc[p].out = "ok"
         /\ proc[p].result.status = "in_progress"
         /\ proc[p].tools = <<"requestHandoff">>
         /\ proc[p].toolres = "ok"
         /\ proc[p].toolTask.status = "in_progress")
        => LET t == store[proc[p].tid]
               n == Len(proc[p].toolTask.handoffs)
           IN  /\ t.status = "awaiting_handoff"
               /\ Len(t.handoffs) = n + 1
               /\ t.handoffs[n + 1].toAgent = NoAgent

\* C5: a turn whose agent invocation fails returns a failed result, without
\* throwing, and leaves the task failed
C5_FailedTurnMarksFailed ==
    \A p \in Procs :
        (TurnReturned(p) /\ proc[p].result.error = "AgentTurnFailure")
        => /\ proc[p].out = "ok"
           /\ proc[p].result.status = "failed"
           /\ store[proc[p].tid].status = "failed"

\* C6: a continue request by an agent that the allow-list does not name
\* (and that holds no wildcard) ends in Unauthorized with the task as it
\* was; a request by a listed agent, or under a wildcard, is not refused
C6_ContinueAuthorization ==
    \A p \in Procs :
        (proc[p].req = "continue" /\ proc[p].first # NoTask
           /\ Valid(proc[p].first))
        => IF NoWildcard(proc[p].first, proc[p].agentId)
           THEN /\ Returned(p)
                /\ proc[p].out = "Unauthorized"
                /\ store[proc[p].tid] = proc[p].first
           ELSE proc[p].out # "Unauthorized"

C6_Witness ==
    \E p \in Procs :
        /\ Returned(p) /\ proc[p].req = "continue"
        /\ proc[p].out = "Unauthorized"
        /\ proc[p].first.security.allowedAgents = {"a1"}
        /\ proc[p].agentId = "a2"

\* C7: the handoff route refuses every caller that the allow-list does not
\* name (no wildcard), whatever fromAgentId the body carries, and leaves
\* the task as it was
C7_HandoffRouteAuthorization ==
    \A p \in Procs :
        (proc[p].req = "handoff" /\ proc[p].first # NoTask
           /\ Valid(proc[p].first)
           /\ NoWildcard(proc[p].first, proc[p].agentId))
        => /\ Returned(p)
           /\ proc[p].out = "403"
           /\ store[proc[p].tid] = proc[p].first

\* C8: acceptHandoff on a non-empty chain sets toAgent on the last record
\* only, keeps the other records and the length, and sets status
\* handed_off; on an empty chain it throws NoHandoffRecord and writes
\* nothing
CallReturned(p, kind) ==
    /\ Returned(p)
    /\ proc[p].req = "repo"
    /\ proc[p].op.kind = kind
    /\ proc[p].current # NoTask
    /\ Valid(proc[p].current)

C8_AcceptHandoff ==
    \A p \in Procs :
        CallReturned(p, "acceptHandoff")
        => LET before == proc[p].current
               after == store[proc[p].tid]
               n == Len(before.handoffs)
           IN  IF n = 0
               THEN proc[p].out = "NoHandoffRecord" /\ after = before
               ELSE /\ proc[p].out = "ok"
                    /\ after.status = "handed_off"
                    /\ Len(after.handoffs) = n
                    /\ after.handoffs[n].toAgent = proc[p].op.agentId
                    /\ after.handoffs[n].fromAgent
                          = before.handoffs[n].fromAgent
                    /\ after.handoffs[n].reason = before.handoffs[n].reason
                    /\ \A i \in 1..(n - 1) :
                          after.handoffs[i] = before.handoffs[i]

C8_Witness ==
    \E p \in Procs :
        /\ CallReturned(p, "acceptHandoff")
        /\ proc[p].out = "ok"
        /\ Len(proc[p].current.handoffs) >= 2
        /\ store[proc[p].tid].handoffs[1].toAgent = NoAgent

\* C9: initiateHandoff sets status awaiting_handoff and appends exactly the
\* given record, toAgent unset, after the records already there
C9_InitiateHandoff ==
    \A p \in Procs :
        CallReturned(p, "initiateHandoff")
        => LET before == proc[p].current
               after == store[proc[p].tid]
               n == Len(before.handoffs)
           IN  /\ proc[p].out = "ok"
               /\ after.status = "awaiting_handoff"
               /\ Len(after.handoffs) = n + 1
               /\ after.handoffs[n + 1] = proc[p].op.handoff
               /\ after.handoffs[n + 1].toAgent = NoAgent
               /\ SubSeq(after.handoffs, 1, n) = before.handoffs

C9_Witness ==
    \E p \in Procs :
        /\ CallReturned(p, "initiateHandoff")
        /\ Len(proc[p].current.handoffs) >= 1
        /\ Len(store[proc[p].tid].handoffs) >= 2

\* C10: createTask persists and returns a pending task, version 1, 0
\* percent, no conversation, one handoff record "Task created" from the
\* creator with toAgent unset
C10_CreateTask ==
    \A p \in Procs :
        (Returned(p) /\ proc[p].req = "create")
        => LET t == store[proc[p].tid]
           IN  /\ proc[p].out = "ok"
               /\ t = proc[p].task
               /\ t.id = proc[p].tid
               /\ t.status = "pending"
               /\ t.version = 1
               /\ t.progress.percentComplete = 0
               /\ t.context.conversationHistory = <<>>
               /\ Len(t.handoffs) = 1
               /\ t.handoffs[1].reason = "Task created"
               /\ t.handoffs[1].fromAgent.agentId = proc[p].op.agentId
               /\ t.handoffs[1].toAgent = NoAgent

C10_Witness ==
    \E p \in Procs :
        /\ Returned(p) /\ proc[p].req = "create"
        /\ proc[p].op.agentId = "a2"
        /\ store[proc[p].tid].handoffs[1].fromAgent.agentId = "a2"

\* C11: a created task's persisted handoff chain is never empty
C11_HandoffsNeverEmpty ==
    \A id \in TaskIds : Exists(id) => Len(store[id].handoffs) >= 1

\* C12: every write of a task keeps the handoff records persisted before
\* it, in their order; only the toAgent of the last of them may change (the
\* session stamp of a record is not counted as a change of the record)
SameRecord(a, b) ==
    /\ a.fromAgent.agentId = b.fromAgent.agentId
    /\ a.reason = b.reason

KeepsChain(old, new) ==
    /\ Len(new) >= Len(old)
    /\ \A i \in 1..Len(old) :
          /\ SameRecord(old[i], new[i])
          /\ i < Len(old) => new[i].toAgent = old[i].toAgent

C12_HandoffChainAppendOnly ==
    [][\A id \in TaskIds :
          Exists(id) => KeepsChain(store[id].handoffs, store'[id].handoffs)]_vars

\* C13: every persisted task document satisfies the schema
C13_PersistedDocumentsValid ==
    \A id \in TaskIds : Exists(id) => Valid(store[id])

\* C14: updateProgress with a percentComplete outside 0..100 throws a
\* validation error and leaves the persisted document as it was
OutOfRange(percent) == percent < 0 \/ percent > 100

C14_UpdateProgressRejectsOutOfRange ==
    \A p \in Procs :
        (/\ CallReturned(p, "updateProgress")
         /\ OutOfRange(proc[p].op.progress.percentComplete))
        => /\ proc[p].out = "ValidationError"
           /\ store[proc[p].tid] = proc[p].current

\* C15: the live conversation history of a persisted task never holds more
\* than CompactThreshold messages, however many messages have been added
History(id) == store[id].context.conversationHistory

Summary(id) == store[id].context.compactedSummary

C15_HistoryBounded ==
    \A id \in TaskIds : Exists(id) => Len(History(id)) <= CompactThreshold

\* the history is full again after a compaction
C15_Witness ==
    \E id \in TaskIds :
        /\ Exists(id)
        /\ Len(History(id)) = CompactThreshold
        /\ Summary(id) # <<>>

\* C16: addConversationMessage on a live history of exactly CompactThreshold
\* messages persists a history of exactly KeepLast messages ending with the
\* new message, and a compactedSummary at least as long as before
C16_AppendAtThresholdCompacts ==
    \A p \in Procs :
        (/\ CallReturned(p, "addConversationMessage")
         /\ Len(proc[p].current.context.conversationHistory)
               = CompactThreshold)
        => LET before == proc[p].current.context
               after == store[proc[p].tid].context
           IN  /\ proc[p].out = "ok"
               /\ Len(after.conversationHistory) = KeepLast
               /\ after.conversationHistory[KeepLast] = proc[p].op.message
               /\ SubSeq(after.conversationHistory, 1, KeepLast - 1)
                     = SubSeq(before.conversationHistory,
                              CompactThreshold - KeepLast + 2,
                              CompactThreshold)
               /\ Len(after.compactedSummary) >= Len(before.compactedSummary)

\* the second compaction: the summary was not empty before
C16_Witness ==
    \E p \in Procs :
        /\ CallReturned(p, "addConversationMessage")
        /\ Len(proc[p].current.context.conversationHistory) = CompactThreshold
        /\ proc[p].current.context.compactedSummary # <<>>
        /\ Len(History(proc[p].tid)) = KeepLast

\* C17: once a task's persisted status is completed, failed or cancelled,
\* no request changes it again
Terminal == {"completed", "failed", "cancelled"}

C17_TerminalStatusKept ==
    [][\A id \in TaskIds :
          (Exists(id) /\ store[id].status \in Terminal)
          => store'[id].status = store[id].status]_vars

\* C18: when the agent is invoked, in a new or a resumed turn, the persisted
\* task is in_progress and carries the session id of the turn
AgentInvoked(p) ==
    /\ InTurn(p)
    /\ proc[p].tools = <<>>
    /\ proc[p].toolres = "none"

C18_InProgressBeforeAgent ==
    \A p \in Procs :
        AgentInvoked(p)
        => /\ store[proc[p].tid].status = "in_progress"
           /\ store[proc[p].tid].session.currentSessionId = proc[p].sessionId

\* C19: after a turn whose agent invocation succeeded, the persisted
\* history is the history the turn read followed by one assistant message,
\* the turn's final text
AgentSucceeded(p) ==
    /\ TurnReturned(p)
    /\ proc[p].result.status # "none"
    /\ proc[p].result.error # "AgentTurnFailure"

C19_FinalTextAppended ==
    \A p \in Procs :
        AgentSucceeded(p)
        => LET before == proc[p].taskState.context.conversationHistory
               after == History(proc[p].tid)
           IN  /\ Len(after) = Len(before) + 1
               /\ after[Len(after)] = Message("assistant", "text")
               /\ SubSeq(after, 1, Len(before)) = before

\* C20: what the last tool the agent invoked in a turn changed is in the
\* persisted document when the turn returns its text
LastTool(p) == proc[p].tools[Len(proc[p].tools)]

C20_ToolChangesPersisted ==
    \A p \in Procs :
        (/\ AgentSucceeded(p)
         /\ proc[p].out = "ok"
         /\ proc[p].result.status = "in_progress"
         /\ proc[p].tools # <<>>
         /\ proc[p].toolres = "ok")
        => LET t == store[proc[p].tid]
           IN  /\ LastTool(p) = "updateProgress"
                    => /\ t.status = "in_progress"
                       /\ t.progress.currentPhase = "implementation"
                       /\ t.progress.percentComplete \in PercentInputs
                       /\ Len(t.progress.checkpoints) = 1
               /\ LastTool(p) = "updateNextSteps"
                    => t.nextSteps.immediate = "next"
               /\ LastTool(p) = "addFileModification"
                    => /\ t.files.modifications # <<>>
                       /\ t.files.modifications[Len(t.files.modifications)]
                             = "src/a.ts"
               /\ LastTool(p) = "requestHandoff"
                    => /\ t.status = "awaiting_handoff"
                       /\ t.handoffs[Len(t.handoffs)].reason
                             = "expertise_needed"

\* C21: completeTask on an existing task persists status completed, phase
\* "completed", 100 percent and no checkpoints, adds one to the version and
\* keeps handoffs, files, nextSteps and the conversation
C21_CompleteTask ==
    \A p \in Procs :
        CallReturned(p, "completeTask")
        => LET before == proc[p].current
               after == store[proc[p].tid]
           IN  /\ proc[p].out = "ok"
               /\ after.status = "completed"
               /\ after.progress.currentPhase = "completed"
               /\ after.progress.percentComplete = 100
               /\ after.progress.checkpoints = <<>>
               /\ after.version = before.version + 1
               /\ after.handoffs = before.handoffs
               /\ after.files = before.files
               /\ after.nextSteps = before.nextSteps
               /\ after.context = before.context

\* a task that has a checkpoint is completed
C21_Witness ==
    \E p \in Procs :
        /\ CallReturned(p, "completeTask")
        /\ proc[p].out = "ok"
        /\ proc[p].current.progress.checkpoints # <<>>
        /\ store[proc[p].tid].progress.checkpoints = <<>>
        /\ store[proc[p].tid].version = 2

\* C22: listTasks returns no entry when the index document does not exist,
\* and otherwise one entry for each indexed task, with the task's id, its
\* title and its persisted status
C22_ListTasks ==
    \A p \in Procs :
        (Returned(p) /\ proc[p].req = "list")
        => LET read == proc[p].isha
               got == proc[p].listed
           IN  IF read = NoIndex THEN got = <<>>
               ELSE /\ Len(got) = Len(read)
                    /\ \A i \in 1..Len(got) :
                          /\ got[i].id = read[i].id
                          /\ got[i].title = Titles[read[i].id]
                          /\ "status" \in DOMAIN got[i]
                          /\ got[i].status \in Statuses

\* C23: no entry of the index is ever lost, and once no createTask call is
\* running every persisted task has its entry in the index
Entries == IF index = NoIndex THEN <<>> ELSE index

Indexed(id) == \E i \in 1..Len(Entries) : Entries[i].id = id

Quiet == \A p \in Procs : proc[p].rpc = "none"

C23_IndexComplete ==
    [][/\ SubSeq(Entries', 1, Len(Entries)) = Entries
       /\ Quiet' => \A id \in TaskIds : Exists(id)' => Indexed(id)']_vars

\* C24: a repository mutation addressed to an id that has no document
\* throws NotFound and writes nothing; a turn requested for such an id ends
\* in TaskNotFound and writes nothing
Mutations ==
    {"updateTask", "updateSessionId", "addFileModification",
     "addConversationMessage", "updateProgress", "updateNextSteps",
     "initiateHandoff", "acceptHandoff", "completeTask"}

C25_UpdatedAtAdvances ==
    [][\A id \in TaskIds :
          (Exists(id) /\ store'[id] # store[id])
          => store'[id].updatedAt > store[id].updatedAt]_vars

\* C26: once a document has been written under tasks/<id>/state.json it
\* stays there, and its id field is <id>
C26_DocumentKeptUnderItsId ==
    \A id \in TaskIds :
        commits[id] > 0 => (Exists(id) /\ store[id].id = id)

\* updateTask was given another id: the document written carries that id
\* under that id's path, the task addressed keeps its own
C26_Witness ==
    \E p \in Procs :
        /\ CallReturned(p, "updateTask")
        /\ "id" \in DOMAIN proc[p].op.updates
        /\ proc[p].out = "ok"
        /\ store["t1"].id = "t1"
        /\ store["t2"].id = "t2"

\* C27: when initiateHandoff has persisted the handoff, the operation that
\* asked for it succeeds, whatever becomes of the issue-tracker
\* notification: the handoff route answers success, the request-handoff
\* tool returns success, and the task stays awaiting_handoff
C27_NotificationFailureNotFatal ==
    \A p \in Procs :
        /\ (/\ Returned(p) /\ proc[p].req = "handoff"
            /\ proc[p].op.kind = "initiateHandoff"
            /\ proc[p].rres = "ok")
           => /\ proc[p].out = "ok"
              /\ store[proc[p].tid].status = "awaiting_handoff"
        /\ (/\ InTurn(p) /\ proc[p].tools # <<>>
            /\ proc[p].op.kind = "initiateHandoff"
            /\ proc[p].rres = "ok")
           => /\ proc[p].toolres = "ok"
              /\ store[proc[p].tid].status = "awaiting_handoff"

\* C28: a continue request with acceptHandoff, by an authorized agent, on a
\* task awaiting handoff: the acceptance (status handed_off, the agent as
\* toAgent of the last record) is persisted before the turn starts; the turn
\* runs with the session id stored in the task; in_progress is written only
\* after the acceptance; the accepted record keeps its toAgent through the
\* turn, and a turn that returns its text leaves the task in_progress
Accepting(r) ==
    /\ r.req = "continue" /\ r.acceptHandoff
    /\ r.first # NoTask /\ Valid(r.first)
    /\ r.first.status = "awaiting_handoff"
    /\ Authorized(r.first, r.agentId)

Accepted(r, t) ==
    t.handoffs[Len(r.first.handoffs)].toAgent = r.agentId

AcceptedBeforeTurn(p) ==
    LET r == proc[p]
        t == store[r.tid]
    IN  Accepting(r)
        => /\ (r.pc = "rs_get" \/ AgentInvoked(p))
                => (t.status = "handed_off" /\ Accepted(r, t))
           /\ InTurn(p) => r.sessionId = r.first.session.currentSessionId
           /\ r.turn = "resume" => Accepted(r, t)
           /\ (TurnReturned(p) /\ r.result.status = "in_progress")
                => t.status = "in_progress"

AcceptedInOrder(p) ==
    LET r == proc'[p]
        old == store[r.tid]
        new == store'[r.tid]
    IN  (Accepting(r) /\ new.status # old.status)
        => /\ old.status = "awaiting_handoff" /\ ~Accepted(r, old)
                => new.status = "handed_off"
           /\ new.status = "in_progress" => Accepted(r, old)

C28_AcceptThenTurn ==
    [][\A p \in Procs : AcceptedBeforeTurn(p)' /\ AcceptedInOrder(p)]_vars

C28_Witness ==
    \E p \in Procs :
        /\ Accepting(proc[p])
        /\ TurnReturned(p)
        /\ proc[p].agentId = "a2"
        /\ proc[p].sessionId = "sx"
        /\ proc[p].result.status = "in_progress"
        /\ store[proc[p].tid].status = "in_progress"
        /\ Accepted(proc[p], store[proc[p].tid])

\* C29: when the history with the new message has at most CompactThreshold
\* messages, addConversationMessage persists the previous history followed
\* by the new message and does not touch compactedSummary
C29_NoCompactionUpToThreshold ==
    \A p \in Procs :
        (/\ CallReturned(p, "addConversationMessage")
         /\ Len(proc[p].current.context.conversationHistory)
               < CompactThreshold)
        => LET before == proc[p].current.context
               after == store[proc[p].tid].context
           IN  /\ proc[p].out = "ok"
               /\ after.conversationHistory
                     = Append(before.conversationHistory, proc[p].op.message)
               /\ after.compactedSummary = before.compactedSummary

\* the message that fills the history, after an earlier compaction
C29_Witness ==
    \E p \in Procs :
        /\ CallReturned(p, "addConversationMessage")
        /\ Len(proc[p].current.context.conversationHistory)
              = CompactThreshold - 1
        /\ proc[p].current.context.compactedSummary # <<>>
        /\ Len(History(proc[p].tid)) = CompactThreshold

\* C30: when the history with the new message has n > CompactThreshold
\* messages, the persisted history is its last KeepLast messages in their
\* order, and the summary is the earlier summary followed by the delimiter
\* and one digest for each of the n - KeepLast older messages, in their order
C30_CompactionFoldsOlderMessages ==
    \A p \in Procs :
        (/\ CallReturned(p, "addConversationMessage")
         /\ Len(proc[p].current.context.conversationHistory)
               >= CompactThreshold)
        => LET before == proc[p].current.context
               after == store[proc[p].tid].context
               h == Append(before.conversationHistory, proc[p].op.message)
               n == Len(h)
               added == SubSeq(after.compactedSummary,
                               Len(before.compactedSummary) + 1,
                               Len(after.compactedSummary))
           IN  /\ after.conversationHistory = SubSeq(h, n - KeepLast + 1, n)
               /\ SubSeq(after.compactedSummary, 1,
                         Len(before.compactedSummary))
                     = before.compactedSummary
               /\ Len(added) = 1 + (n - KeepLast)
               /\ added[1] = "---"
               /\ \A i \in 1..(n - KeepLast) :
                     /\ added[i + 1].role = h[i].role
                     /\ added[i + 1].text = h[i].content

\* the second compaction: messages 32 to 62 are folded after messages 1 to 31
C30_Witness ==
    \E p \in Procs :
        /\ CallReturned(p, "addConversationMessage")
        /\ Len(proc[p].current.context.conversationHistory) = CompactThreshold
        /\ Len(proc[p].current.context.compactedSummary)
              = 2 + CompactThreshold - KeepLast
        /\ Len(Summary(proc[p].tid)) = 2 * (2 + CompactThreshold - KeepLast)

\* C31: the checkpoints accumulate: when the agent has invoked the
\* update-progress tool k times in a turn, each time with success, the
\* persisted task holds the checkpoints the turn found and k more
OnlyProgressTools(p) ==
    /\ InTurn(p)
    /\ proc[p].tools # <<>>
    /\ \A i \in 1..Len(proc[p].tools) : proc[p].tools[i] = "updateProgress"
    /\ proc[p].toolres = "ok"

C31_CheckpointsAccumulate ==
    \A p \in Procs :
        OnlyProgressTools(p)
        => Len(store[proc[p].tid].progress.checkpoints)
              = Len(proc[p].taskState.progress.checkpoints)
                   + Len(proc[p].tools)

\* C32: a handoff requested by the agent in the turn it runs as the acceptor
\* of the previous handoff is recorded as coming from that agent: the new
\* record's fromAgent.agentId is the toAgent of the record before it
HandoffRequestedByAcceptor(p) ==
    LET r == proc[p]
        n == Len(r.toolTask.handoffs)
    IN  /\ InTurn(p)
        /\ r.req = "continue"
        /\ r.tools # <<>> /\ LastTool(p) = "requestHandoff"
        /\ r.toolres = "ok"
        /\ n > 0
        /\ r.toolTask.handoffs[n].toAgent = r.agentId

C32_HandoffFromRequestingAgent ==
    \A p \in Procs :
        HandoffRequestedByAcceptor(p)
        => LET t == store[proc[p].tid]
               n == Len(proc[p].toolTask.handoffs)
           IN  /\ Len(t.handoffs) = n + 1
               /\ t.handoffs[n + 1].fromAgent.agentId = proc[p].agentId

\* C33: a persisted task that is in_progress has been assigned a session:
\* its session.currentSessionId is not empty
C33_InProgressHasSession ==
    \A id \in TaskIds :
        (Exists(id) /\ store[id].status = "in_progress")
        => store[id].session.currentSessionId # ""

\* C34: a persisted task that is handed_off has a last handoff record whose
\* toAgent is set; one that is awaiting_handoff has a last handoff record
\* whose toAgent is unset
LastToAgent(t) ==
    IF Len(t.handoffs) = 0 THEN "norecord"
    ELSE t.handoffs[Len(t.handoffs)].toAgent

C34_StatusMatchesLastRecord ==
    \A id \in TaskIds :
        Exists(id)
        => /\ store[id].status = "handed_off"
                => LastToAgent(store[id]) \in Agents
           /\ store[id].status = "awaiting_handoff"
                => LastToAgent(store[id]) = NoAgent

\* C35: a handoff is accepted at most once: the toAgent of a persisted
\* handoff record, once set, is the same in every later document of the
\* task, also when two continue requests accept the handoff concurrently
KeepsAcceptor(old, new) ==
    \A i \in 1..Len(old) :
        old[i].toAgent # NoAgent
        => (i <= Len(new) /\ new[i].toAgent = old[i].toAgent)

C35_AcceptedAtMostOnce ==
    [][\A id \in TaskIds :
          Exists(id) => KeepsAcceptor(store[id].handoffs,
                                      store'[id].handoffs)]_vars

\* C36: the version of a task's persisted document never decreases,
\* however the repository calls of concurrent callers interleave
C36_VersionNeverDecreases ==
    [][\A id \in TaskIds :
          Exists(id) => store'[id].version >= store[id].version]_vars

\* C37: with a single writer, the progress of the ExecutionResult a turn
\* returns is the persisted percentComplete of the task at that moment
C37_ResultProgressIsPersisted ==
    \A p \in Procs :
        (TurnReturned(p) /\ proc[p].result.status # "none")
        => proc[p].result.progress
              = store[proc[p].tid].progress.percentComplete

\* C38: addFileModification, addConversationMessage, updateProgress and
\* updateNextSteps change their own sub-object and updatedAt only: status,
\* handoffs, session, security, id and every other field of the persisted
\* task are as the call read them
OwnField ==
    [addFileModification |-> "files",
     addConversationMessage |-> "context",
     updateProgress |-> "progress",
     updateNextSteps |-> "nextSteps"]

C38_HelpersKeepOtherFields ==
    \A p \in Procs : \A kind \in DOMAIN OwnField :
        CallReturned(p, kind)
        => LET before == proc[p].current
               after == store[proc[p].tid]
           IN  /\ proc[p].out = "ok"
               /\ DOMAIN after = DOMAIN before
               /\ \A k \in DOMAIN before \ {OwnField[kind], "updatedAt"} :
                     after[k] = before[k]

\* a helper has changed its sub-object on a task that awaits a handoff
C38_Witness ==
    \E p \in Procs :
        /\ CallReturned(p, "updateProgress")
        /\ proc[p].current.status = "awaiting_handoff"
        /\ Len(proc[p].current.handoffs) = 2
        /\ proc[p].current.progress.percentComplete = 0
        /\ store[proc[p].tid].progress.percentComplete = 45
        /\ store[proc[p].tid].status = "awaiting_handoff"

\* C39: a webhook delivery whose signature is missing or does not match is
\* answered 401 and writes nothing, whether or not the service has a
\* webhook secret configured
C39_UnsignedWebhookRejected ==
    [][\A p \in Procs :
          (proc'[p].req = "webhook" /\ ~proc'[p].signed)
          => (proc'[p].out = "401" /\ store' = store)]_vars
====
